---------------------------- MODULE Spec2Model ----------------------------
(***************************************************************************)
(* Model of the lottery-ticket sorting benchmark (src/main.cpp): the       *)
(* record ordering, selectionSort / bubbleSort / heapSort, the loader      *)
(* readTicketsFromFile and the measurement run of main.                    *)
(*                                                                         *)
(* Vectors are sequences; the code's 0-based index k is element k+1.       *)
(* A std::string is a sequence of one-character strings.                   *)
(***************************************************************************)
EXTENDS Integers, Sequences, FiniteSets, TLC

VARIABLES
    pc,                   \* position of main / of the function under study
    files,                \* the input files lottery_<size>.txt, by sweep index
    arrs_tickets,         \* main: the loaded datasets
    std_sort_times,       \* main: durations of measureStdSort
    std_bubble_times,     \* main: durations of measureBubbleSort
    std_selection_times,  \* main: durations of measureSelectionSort
    std_heap_times,       \* main: durations of measureHeapSort
    out,                  \* the rows streamed to time_sorts.txt
    written,              \* the sorted-output files written by the measure routines
    calls,                \* history: one entry per measure* invocation
    input,                \* argument(s) of the function under study
    result                \* what the function under study returned

vars == <<pc, files, arrs_tickets, std_sort_times, std_bubble_times,
          std_selection_times, std_heap_times, out, written, calls,
          input, result>>

harnessVars == <<files, arrs_tickets, std_sort_times, std_bubble_times,
                 std_selection_times, std_heap_times, out, written, calls>>

None == "none"

\* ------------------------------------------------------------------------
\* Bounds of the model
\* ------------------------------------------------------------------------
MaxLen == 4        \* longest vector handed to a sorting routine
MaxLines == 2      \* most lines of a file made of sample lines
MaxLineLen == 4    \* longest line enumerated over the small alphabet
NumSizes == 2      \* how many entries of the size sweep a run covers

\* ------------------------------------------------------------------------
\* Strings
\* ------------------------------------------------------------------------
\* The character codes std::string's comparison and stoi act on.
Code(c) ==
    CASE c = " " -> 32
      [] c = "+" -> 43
      [] c = "," -> 44
      [] c = "-" -> 45
      [] c = "0" -> 48
      [] c = "1" -> 49
      [] c = "2" -> 50
      [] c = "3" -> 51
      [] c = "4" -> 52
      [] c = "5" -> 53
      [] c = "6" -> 54
      [] c = "7" -> 55
      [] c = "8" -> 56
      [] c = "9" -> 57
      [] c = "a" -> 97

IsDigit(c) == c \in {"0", "1", "2", "3", "4", "5", "6", "7", "8", "9"}

DigitVal(c) == Code(c) - 48

\* std::string operator< : lexicographic by character code, a proper prefix
\* is smaller.
RECURSIVE StrLess(_, _)
StrLess(s, t) ==
    IF t = <<>> THEN FALSE
    ELSE IF s = <<>> THEN TRUE
    ELSE IF Code(Head(s)) # Code(Head(t)) THEN Code(Head(s)) < Code(Head(t))
    ELSE StrLess(Tail(s), Tail(t))

\* ------------------------------------------------------------------------
\* LotteryTicket and its comparison operators
\* ------------------------------------------------------------------------
LotteryTicket(num, c, date, win) ==
    [ticketNumber |-> num, cost |-> c, lotteryDate |-> date, winAmount |-> win]

\* A mutation of operator<: the winAmount level compared ascending.
Less_winAscending(a, b) ==
    IF a.lotteryDate # b.lotteryDate THEN StrLess(a.lotteryDate, b.lotteryDate)
    ELSE IF a.winAmount # b.winAmount THEN a.winAmount < b.winAmount
    ELSE a.ticketNumber < b.ticketNumber

\* A mutation of operator<: the ticketNumber tiebreak compared with <=.
Less_tieReflexive(a, b) ==
    IF a.lotteryDate # b.lotteryDate THEN StrLess(a.lotteryDate, b.lotteryDate)
    ELSE IF a.winAmount # b.winAmount THEN a.winAmount > b.winAmount
    ELSE a.ticketNumber <= b.ticketNumber

\* LotteryTicket::operator<
Less(a, b) ==
    IF a.lotteryDate # b.lotteryDate THEN StrLess(a.lotteryDate, b.lotteryDate)
    ELSE IF a.winAmount # b.winAmount THEN a.winAmount > b.winAmount
    ELSE a.ticketNumber < b.ticketNumber

\* LotteryTicket::operator>
Greater(a, b) == Less(b, a)

\* LotteryTicket::operator<=
LessEq(a, b) == ~Greater(a, b)

\* LotteryTicket::operator>=
GreaterEq(a, b) == ~Less(a, b)

\* ------------------------------------------------------------------------
\* Vector access
\* ------------------------------------------------------------------------
InRange(arr, k) == k \in 0 .. Len(arr) - 1

At(arr, k) == arr[k + 1]

\* std::swap(arr[i], arr[j])
Swap(arr, i, j) ==
    IF InRange(arr, i) /\ InRange(arr, j)
    THEN [arr EXCEPT ![i + 1] = arr[j + 1], ![j + 1] = arr[i + 1]]
    ELSE arr

\* arr[i] < arr[j] and arr[i] > arr[j]; an index outside the vector reads
\* no element, and the run records it in its oob flag.
LessAt(arr, i, j) ==
    InRange(arr, i) /\ InRange(arr, j) /\ Less(At(arr, i), At(arr, j))

GreaterAt(arr, i, j) ==
    InRange(arr, i) /\ InRange(arr, j) /\ Greater(At(arr, i), At(arr, j))

Outside(arr, i, j) == ~InRange(arr, i) \/ ~InRange(arr, j)

\* The state of one sorting run: the vector, whether an index outside
\* 0..N-1 was used, the comparisons made (bubbleSort) and the passes begun.
Run(arr) == [ran |-> TRUE, arr |-> arr, oob |-> FALSE, log |-> <<>>, passes |-> 0]

\* A routine that has not been called yet.
NotRun == [ran |-> FALSE]


\* ------------------------------------------------------------------------
\* selectionSort
\* ------------------------------------------------------------------------
\* The inner loop: for (j = ...; j < n; j++) if (arr[j] < arr[min_idx]) min_idx = j;
RECURSIVE SelScan(_, _, _, _)
SelScan(st, n, j, min_idx) ==
    IF j < n
    THEN SelScan([st EXCEPT !.oob = @ \/ Outside(st.arr, j, min_idx)], n, j + 1,
                 IF LessAt(st.arr, j, min_idx) THEN j ELSE min_idx)
    ELSE [st |-> st, min_idx |-> min_idx]

\* The outer loop: for (i = ...; i < n - 1; i++) { scan; swap if min_idx != i }
RECURSIVE SelOuter(_, _, _)
SelOuter(st, n, i) ==
    IF i < n - 1
    THEN LET sc == SelScan(st, n, i + 1, i)
             m  == sc.min_idx
         IN  SelOuter(IF m # i
                      THEN [sc.st EXCEPT !.arr = Swap(@, i, m),
                                         !.oob = @ \/ Outside(sc.st.arr, i, m)]
                      ELSE sc.st,
                      n, i + 1)
    ELSE st

\* A mutation of selectionSort: the outer loop starts at position 1.
selectionSort_skipFirst(arr) == SelOuter(Run(arr), Len(arr), 1)

selectionSort(arr) == SelOuter(Run(arr), Len(arr), 0)

\* ------------------------------------------------------------------------
\* bubbleSort
\* ------------------------------------------------------------------------
\* One comparison of the inner loop body: if (arr[j] > arr[j+1]) swap.
BubStep(st, i, j) ==
    LET after == IF GreaterAt(st.arr, j, j + 1) THEN Swap(st.arr, j, j + 1)
                 ELSE st.arr
    IN  [st EXCEPT !.arr = after,
                   !.oob = @ \/ Outside(st.arr, j, j + 1),
                   !.log = Append(@, [pass |-> i, left |-> j, right |-> j + 1,
                                      before |-> st.arr, after |-> after])]

\* The inner loop: for (j = ...; j < n - i - 1; j++)
RECURSIVE BubInner(_, _, _, _)
BubInner(st, n, i, j) ==
    IF j < n - i - 1 THEN BubInner(BubStep(st, i, j), n, i, j + 1) ELSE st

\* The outer loop: for (i = ...; i < n - 1; i++)
RECURSIVE BubOuter(_, _, _)
BubOuter(st, n, i) ==
    IF i < n - 1
    THEN BubOuter(BubInner([st EXCEPT !.passes = @ + 1], n, i, 0), n, i + 1)
    ELSE st

\* A mutation of bubbleSort: it stops after the first pass that swaps nothing.
RECURSIVE BubOuter_earlyExit(_, _, _)
BubOuter_earlyExit(st, n, i) ==
    IF i < n - 1
    THEN LET s2 == BubInner([st EXCEPT !.passes = @ + 1], n, i, 0)
         IN  IF s2.arr = st.arr THEN s2 ELSE BubOuter_earlyExit(s2, n, i + 1)
    ELSE st

bubbleSort_earlyExit(arr) == BubOuter_earlyExit(Run(arr), Len(arr), 0)

bubbleSort(arr) == BubOuter(Run(arr), Len(arr), 0)

\* ------------------------------------------------------------------------
\* heapify / heapSort
\* ------------------------------------------------------------------------
\* A mutation of heapify: the right child is admitted when right <= n.
RECURSIVE heapify_rightBound(_, _, _)
heapify_rightBound(st, n, i) ==
    LET left  == 2 * i + 1
        right == 2 * i + 2
        l1 == IF left < n /\ GreaterAt(st.arr, left, i) THEN left ELSE i
        largest == IF right <= n /\ GreaterAt(st.arr, right, l1) THEN right ELSE l1
        bad == \/ (left < n /\ Outside(st.arr, left, i))
               \/ (right <= n /\ Outside(st.arr, right, l1))
    IN  IF largest # i
        THEN heapify_rightBound([st EXCEPT !.arr = Swap(@, i, largest),
                                           !.oob = @ \/ bad \/ Outside(st.arr, i, largest)],
                                n, largest)
        ELSE [st EXCEPT !.oob = @ \/ bad]

RECURSIVE heapify(_, _, _)
heapify(st, n, i) ==
    LET left  == 2 * i + 1
        right == 2 * i + 2
        l1 == IF left < n /\ GreaterAt(st.arr, left, i) THEN left ELSE i
        largest == IF right < n /\ GreaterAt(st.arr, right, l1) THEN right ELSE l1
        bad == \/ (left < n /\ Outside(st.arr, left, i))
               \/ (right < n /\ Outside(st.arr, right, l1))
    IN  IF largest # i
        THEN heapify([st EXCEPT !.arr = Swap(@, i, largest),
                                !.oob = @ \/ bad \/ Outside(st.arr, i, largest)],
                     n, largest)
        ELSE [st EXCEPT !.oob = @ \/ bad]

\* The build loop: for (i = n / 2 - 1; i >= 0; i--) heapify(arr, n, i);
RECURSIVE HeapBuild(_, _, _)
HeapBuild(st, n, i) ==
    IF i >= 0 THEN HeapBuild(heapify(st, n, i), n, i - 1) ELSE st

\* The extraction loop: for (i = n - 1; i > 0; i--) { swap(arr[0], arr[i]); heapify(arr, i, 0); }
RECURSIVE HeapExtract(_, _)
HeapExtract(st, i) ==
    IF i > 0
    THEN HeapExtract(heapify([st EXCEPT !.arr = Swap(@, 0, i),
                                        !.oob = @ \/ Outside(st.arr, 0, i)],
                             i, 0),
                     i - 1)
    ELSE st

heapSort(arr) ==
    LET n == Len(arr)
    IN  HeapExtract(HeapBuild(Run(arr), n, (n \div 2) - 1), n - 1)

\* ------------------------------------------------------------------------
\* std::sort (the library's contract: the vector is left as some
\* permutation of itself in which no element is less than its predecessor;
\* which one, among elements neither of which is less, is unspecified)
\* ------------------------------------------------------------------------
IsSorted(arr) ==
    \A k \in 1 .. Len(arr) - 1 : ~Less(arr[k + 1], arr[k])

Rearrangements(arr) ==
    IF arr = <<>> THEN {<<>>}
    ELSE {[k \in 1 .. Len(arr) |-> arr[f[k]]] : f \in Permutations(1 .. Len(arr))}

stdSort(arr) == {[Run(r) EXCEPT !.arr = r] : r \in {p \in Rearrangements(arr) : IsSorted(p)}}


\* ------------------------------------------------------------------------
\* readTicketsFromFile
\* ------------------------------------------------------------------------
\* std::stringstream ss(line): the characters not yet read and the state bits.
StringStream(line) == [rest |-> line, eof |-> FALSE, fail |-> FALSE]

\* Position of the first ',' of s, or 0.
RECURSIVE FindComma(_, _)
FindComma(s, k) ==
    IF k > Len(s) THEN 0 ELSE IF s[k] = "," THEN k ELSE FindComma(s, k + 1)

\* std::getline(ss, item, ','): on a stream that is not good it sets failbit
\* and leaves item as it was; otherwise item is cleared and receives the
\* characters up to the next ',' (removed from the stream) or up to the end
\* (eofbit; failbit too when nothing was extracted).
GetLine(ss, item) ==
    IF ss.eof \/ ss.fail
    THEN [ss |-> [ss EXCEPT !.fail = TRUE], item |-> item]
    ELSE LET p == FindComma(ss.rest, 1)
         IN  IF p > 0
             THEN [ss |-> [ss EXCEPT !.rest = SubSeq(ss.rest, p + 1, Len(ss.rest))],
                   item |-> SubSeq(ss.rest, 1, p - 1)]
             ELSE [ss |-> [rest |-> <<>>, eof |-> TRUE, fail |-> ss.rest = <<>>],
                   item |-> ss.rest]

RECURSIVE SkipSpace(_)
SkipSpace(s) == IF s # <<>> /\ Head(s) = " " THEN SkipSpace(Tail(s)) ELSE s

\* The largest int (the type of cost and win, line 178).  The model's own
\* integers end there too, so a long long ticket number is modelled up to
\* this value and the inputs hold no larger one.
IntMax == 2147483647

\* The value of the longest run of digits s starts with, its length, and
\* whether the value is beyond IntMax.
RECURSIVE Digits(_, _, _, _)
Digits(s, val, n, big) ==
    IF s # <<>> /\ IsDigit(Head(s))
    THEN LET d == DigitVal(Head(s))
         IN  IF big \/ val > (IntMax - d) \div 10
             THEN Digits(Tail(s), val, n + 1, TRUE)
             ELSE Digits(Tail(s), 10 * val + d, n + 1, FALSE)
    ELSE [val |-> val, n |-> n, big |-> big]

\* std::stoi / std::stoll on `item`: leading spaces are skipped, a sign is
\* optional, the digits that follow are converted and whatever follows them
\* is ignored; no digit throws std::invalid_argument, a value outside the
\* type throws std::out_of_range.
StringToInt(item) ==
    LET s    == SkipSpace(item)
        neg  == s # <<>> /\ Head(s) = "-"
        body == IF s # <<>> /\ Head(s) \in {"+", "-"} THEN Tail(s) ELSE s
        d    == Digits(body, 0, 0, FALSE)
    IN  IF d.n = 0 THEN [ok |-> FALSE, error |-> "invalid_argument"]
        ELSE IF d.big THEN [ok |-> FALSE, error |-> "out_of_range"]
        ELSE [ok |-> TRUE, val |-> IF neg THEN 0 - d.val ELSE d.val]

stoll(item) == StringToInt(item)

stoi(item) == StringToInt(item)

\* The body of the while loop: one line split into num, cost, date, win.
ParseLine(line) ==
    LET g1   == GetLine(StringStream(line), <<>>)
        num  == stoll(g1.item)
        g2   == GetLine(g1.ss, g1.item)
        cost == stoi(g2.item)
        g3   == GetLine(g2.ss, g2.item)
        date == g3.item
        g4   == GetLine(g3.ss, g3.item)
        win  == stoi(g4.item)
    IN  IF ~num.ok THEN num
        ELSE IF ~cost.ok THEN cost
        ELSE IF ~win.ok THEN win
        ELSE [ok |-> TRUE, ticket |-> LotteryTicket(num.val, cost.val, date, win.val)]

\* while (std::getline(file, line)) { ...; tickets.emplace_back(...); }
RECURSIVE ReadLines(_, _)
ReadLines(lines, tickets) ==
    IF lines = <<>> THEN [ok |-> TRUE, tickets |-> tickets]
    ELSE LET r == ParseLine(Head(lines))
         IN  IF r.ok THEN ReadLines(Tail(lines), Append(tickets, r.ticket))
             ELSE r

\* A file that cannot be opened, and a file holding the given lines.
NoFile == [open |-> FALSE, lines |-> <<>>]

TextFile(lines) == [open |-> TRUE, lines |-> lines]

readTicketsFromFile(file) ==
    IF ~file.open THEN [ok |-> FALSE, error |-> "runtime_error"]
    ELSE ReadLines(file.lines, <<>>)

\* ------------------------------------------------------------------------
\* operator<< and the sorted-output files
\* ------------------------------------------------------------------------
DigitChar(d) == <<"0", "1", "2", "3", "4", "5", "6", "7", "8", "9">>[d + 1]

RECURSIVE NatToString(_)
NatToString(n) ==
    IF n < 10 THEN <<DigitChar(n)>>
    ELSE Append(NatToString(n \div 10), DigitChar(n % 10))

\* os << (integer), std::to_string
IntToString(n) == IF n < 0 THEN <<"-">> \o NatToString(0 - n) ELSE NatToString(n)

\* std::ostream& operator<<(std::ostream&, const LotteryTicket&)
TicketToString(t) ==
    IntToString(t.ticketNumber) \o <<",">> \o IntToString(t.cost) \o <<",">>
        \o t.lotteryDate \o <<",">> \o IntToString(t.winAmount)

\* out.open(filename); for (i < tickets.size()) out << tickets[i] << std::endl;
\* the file of that name now holds exactly these lines.
WriteSorted(fs, prefix, tickets) ==
    LET name == <<prefix, Len(tickets)>>
    IN  [f \in (DOMAIN fs) \cup {name} |->
            IF f = name THEN [k \in 1 .. Len(tickets) |-> TicketToString(tickets[k])]
            ELSE fs[f]]

\* ------------------------------------------------------------------------
\* main
\* ------------------------------------------------------------------------
arr_size == <<100, 500, 1000, 2500, 5000, 7500, 10000, 12500, 15000, 20000,
              30000, 40000, 50000, 60000, 80000, 100000>>

\* What duration_cast<milliseconds>(end - start).count() may yield.
Durations == {0, 3}

\* A mutation of main: the heap loop runs before the selection loop.
NextPhase_heapBeforeSelection(p) ==
    CASE p = "load" -> "std"
      [] p = "std" -> "bubble"
      [] p = "bubble" -> "heap"
      [] p = "heap" -> "selection"
      [] p = "selection" -> "write"

\* The order of main's loops: load, then one loop per algorithm, then the table.
NextPhase(p) ==
    CASE p = "load" -> "std"
      [] p = "std" -> "bubble"
      [] p = "bubble" -> "selection"
      [] p = "selection" -> "heap"
      [] p = "heap" -> "write"

\* A mutation of the measure routines: the vector is taken by reference.
AfterCall_byReference(datasets, k, sorted) == [datasets EXCEPT ![k] = sorted]

\* for (auto arr : arrs_tickets) measure...(arr): arr is a copy and the
\* routine takes it by value, so the caller's datasets are as before.
AfterCall(datasets, k, sorted) == datasets

\* A mutation of the load loop: a failed load is caught and the dataset
\* taken as empty.
LoadDataset_skipBad ==
    /\ pc = "load"
    /\ LET k == Len(arrs_tickets) + 1
           r == readTicketsFromFile(files[k])
       IN  /\ arrs_tickets' = Append(arrs_tickets, IF r.ok THEN r.tickets ELSE <<>>)
           /\ pc' = IF k = Len(files) THEN NextPhase("load") ELSE pc
    /\ UNCHANGED <<files, std_sort_times, std_bubble_times, std_selection_times,
                   std_heap_times, out, written, calls, input, result>>

\* for (auto name : filenames) arrs_tickets.push_back(readTicketsFromFile(name));
\* an exception leaves main uncaught and the program terminates.
LoadDataset ==
    /\ pc = "load"
    /\ LET k == Len(arrs_tickets) + 1
           r == readTicketsFromFile(files[k])
       IN  IF r.ok
           THEN /\ arrs_tickets' = Append(arrs_tickets, r.tickets)
                /\ pc' = IF k = Len(files) THEN NextPhase("load") ELSE pc
           ELSE /\ pc' = "aborted"
                /\ UNCHANGED arrs_tickets
    /\ UNCHANGED <<files, std_sort_times, std_bubble_times, std_selection_times,
                   std_heap_times, out, written, calls, input, result>>

Call(alg, k, tickets, sorted, ms) ==
    [alg |-> alg, index |-> k, tickets |-> tickets, sorted |-> sorted, ms |-> ms]

\* std_sort_times.push_back(measureStdSort(arr))
MeasureStdSort ==
    /\ pc = "std"
    /\ LET k == Len(std_sort_times) + 1
           tickets == arrs_tickets[k]
       IN  \E r \in stdSort(tickets), ms \in Durations :
               /\ std_sort_times' = Append(std_sort_times, ms)
               /\ arrs_tickets' = AfterCall(arrs_tickets, k, r.arr)
               /\ calls' = Append(calls, Call("std", k, tickets, r.arr, ms))
               /\ pc' = IF k = Len(arrs_tickets) THEN NextPhase("std") ELSE pc
    /\ UNCHANGED <<files, std_bubble_times, std_selection_times, std_heap_times,
                   out, written, input, result>>

\* std_bubble_times.push_back(measureBubbleSort(arr))
MeasureBubbleSort ==
    /\ pc = "bubble"
    /\ LET k == Len(std_bubble_times) + 1
           tickets == arrs_tickets[k]
           r == bubbleSort(tickets)
       IN  \E ms \in Durations :
               /\ std_bubble_times' = Append(std_bubble_times, ms)
               /\ arrs_tickets' = AfterCall(arrs_tickets, k, r.arr)
               /\ written' = WriteSorted(written, "lottery_bubble_sort_", r.arr)
               /\ calls' = Append(calls, Call("bubble", k, tickets, r.arr, ms))
               /\ pc' = IF k = Len(arrs_tickets) THEN NextPhase("bubble") ELSE pc
    /\ UNCHANGED <<files, std_sort_times, std_selection_times, std_heap_times,
                   out, input, result>>

\* std_selection_times.push_back(measureSelectionSort(arr))
MeasureSelectionSort ==
    /\ pc = "selection"
    /\ LET k == Len(std_selection_times) + 1
           tickets == arrs_tickets[k]
           r == selectionSort(tickets)
       IN  \E ms \in Durations :
               /\ std_selection_times' = Append(std_selection_times, ms)
               /\ arrs_tickets' = AfterCall(arrs_tickets, k, r.arr)
               /\ written' = WriteSorted(written, "lottery_selection_sort_", r.arr)
               /\ calls' = Append(calls, Call("selection", k, tickets, r.arr, ms))
               /\ pc' = IF k = Len(arrs_tickets) THEN NextPhase("selection") ELSE pc
    /\ UNCHANGED <<files, std_sort_times, std_bubble_times, std_heap_times,
                   out, input, result>>

\* std_heap_times.push_back(measureHeapSort(arr))
MeasureHeapSort ==
    /\ pc = "heap"
    /\ LET k == Len(std_heap_times) + 1
           tickets == arrs_tickets[k]
           r == heapSort(tickets)
       IN  \E ms \in Durations :
               /\ std_heap_times' = Append(std_heap_times, ms)
               /\ arrs_tickets' = AfterCall(arrs_tickets, k, r.arr)
               /\ written' = WriteSorted(written, "lottery_heap_sort_", r.arr)
               /\ calls' = Append(calls, Call("heap", k, tickets, r.arr, ms))
               /\ pc' = IF k = Len(arrs_tickets) THEN NextPhase("heap") ELSE pc
    /\ UNCHANGED <<files, std_sort_times, std_bubble_times, std_selection_times,
                   out, input, result>>

\* A mutation of the table's row: the bubble and selection columns swapped.
Row_columnsSwapped(i) ==
    <<arr_size[i], std_sort_times[i], std_selection_times[i], std_bubble_times[i],
      std_heap_times[i]>>

\* out << arr_size[i] << '\t' << std_sort_times[i] << '\t' << std_bubble_times[i]
\*     << '\t' << std_selection_times[i] << '\t' << std_heap_times[i] << std::endl;
Row(i) ==
    <<arr_size[i], std_sort_times[i], std_bubble_times[i], std_selection_times[i],
      std_heap_times[i]>>

\* out.open("time_sorts.txt"); for (i < std_sort_times.size()) out << row i;
WriteTable ==
    /\ pc = "write"
    /\ out' = [i \in 1 .. Len(std_sort_times) |-> Row(i)]
    /\ pc' = "done"
    /\ UNCHANGED <<files, arrs_tickets, std_sort_times, std_bubble_times,
                   std_selection_times, std_heap_times, written, calls, input, result>>

\* ------------------------------------------------------------------------
\* Sample data
\* ------------------------------------------------------------------------
DateApr == <<"2", "0", "2", "4", "-", "0", "4", "-", "0", "1">>
DateMay == <<"2", "0", "2", "4", "-", "0", "5", "-", "0", "1">>
DateYear == <<"2", "0", "2", "4">>

OrdRecords ==
    {LotteryTicket(n, c, d, w) : n \in {3, 7}, c \in {5, 10},
                                 d \in {DateApr, DateMay, DateYear}, w \in {50, 100}}

\* The records the sorting routines are run on: three key levels, and two
\* records that share all three key fields and differ in cost.
SortRecords ==
    {LotteryTicket(1, 10, DateMay, 50), LotteryTicket(2, 20, DateMay, 100),
     LotteryTicket(3, 5, DateApr, 0), LotteryTicket(7, 10, DateMay, 50),
     LotteryTicket(1, 99, DateMay, 50)}

SeqsUpTo(S, n) == UNION {[1 .. k -> S] : k \in 0 .. n}

Algs == {"std", "bubble", "selection", "heap"}

\* The variables of main's run, at rest while a function is studied alone.
HarnessIdle ==
    /\ files = <<>>
    /\ arrs_tickets = <<>>
    /\ std_sort_times = <<>>
    /\ std_bubble_times = <<>>
    /\ std_selection_times = <<>>
    /\ std_heap_times = <<>>
    /\ out = <<>>
    /\ written = <<>>
    /\ calls = <<>>

\* ------------------------------------------------------------------------
\* The comparison operators applied to records a, b, c
\* ------------------------------------------------------------------------
InitOrd ==
    /\ pc = "ord"
    /\ input \in [a : OrdRecords, b : OrdRecords, c : OrdRecords]
    /\ result = None
    /\ HarnessIdle

Compare ==
    /\ pc = "ord"
    /\ pc' = "compared"
    /\ result' = [lt    |-> Less(input.a, input.b),
                  gt    |-> Greater(input.a, input.b),
                  le    |-> LessEq(input.a, input.b),
                  ge    |-> GreaterEq(input.a, input.b),
                  lt_ba |-> Less(input.b, input.a),
                  lt_bc |-> Less(input.b, input.c),
                  lt_ac |-> Less(input.a, input.c)]
    /\ UNCHANGED <<input, harnessVars>>

NextOrd == Compare

SpecOrd == InitOrd /\ [][NextOrd]_vars

\* ------------------------------------------------------------------------
\* The four sorting routines applied to one vector
\* ------------------------------------------------------------------------
InitSort ==
    /\ pc = "sort"
    /\ input \in SeqsUpTo(SortRecords, MaxLen)
    /\ result = [alg \in Algs |-> NotRun]
    /\ HarnessIdle

RunStdSort ==
    /\ pc = "sort" /\ ~result["std"].ran
    /\ \E r \in stdSort(input) : result' = [result EXCEPT !["std"] = r]
    /\ UNCHANGED <<pc, input, harnessVars>>

RunBubbleSort ==
    /\ pc = "sort" /\ ~result["bubble"].ran
    /\ result' = [result EXCEPT !["bubble"] = bubbleSort(input)]
    /\ UNCHANGED <<pc, input, harnessVars>>

RunSelectionSort ==
    /\ pc = "sort" /\ ~result["selection"].ran
    /\ result' = [result EXCEPT !["selection"] = selectionSort(input)]
    /\ UNCHANGED <<pc, input, harnessVars>>

RunHeapSort ==
    /\ pc = "sort" /\ ~result["heap"].ran
    /\ result' = [result EXCEPT !["heap"] = heapSort(input)]
    /\ UNCHANGED <<pc, input, harnessVars>>

NextSort == RunStdSort \/ RunBubbleSort \/ RunSelectionSort \/ RunHeapSort

SpecSort == InitSort /\ [][NextSort]_vars

\* ------------------------------------------------------------------------
\* Properties of the ordering
\* ------------------------------------------------------------------------
Key(r) == <<r.lotteryDate, r.winAmount, r.ticketNumber>>

\* C2: operator< is true exactly when the date is earlier, or the dates are
\* equal and the winAmount is larger, or dates and winAmounts are equal and
\* the ticketNumber is smaller; changing the cost of either record never
\* changes the result.
C2_LessRule ==
    pc = "compared" =>
        LET a == input.a
            b == input.b
        IN  /\ result.lt <=>
                 \/ StrLess(a.lotteryDate, b.lotteryDate)
                 \/ (a.lotteryDate = b.lotteryDate /\ a.winAmount > b.winAmount)
                 \/ (a.lotteryDate = b.lotteryDate /\ a.winAmount = b.winAmount
                        /\ a.ticketNumber < b.ticketNumber)
            /\ \A c1, c2 \in {5, 10, 77} :
                 Less([a EXCEPT !.cost = c1], [b EXCEPT !.cost = c2]) = result.lt

C2_Witness ==
    /\ pc = "compared"
    /\ input.a.lotteryDate = input.b.lotteryDate
    /\ input.a.winAmount > input.b.winAmount
    /\ input.a.ticketNumber > input.b.ticketNumber
    /\ input.a.cost # input.b.cost
    /\ result.lt

\* C3: the comparison is a consistent strict total order: a < b and b < a
\* never both hold, neither holds exactly when the keys are equal, > <= >=
\* are the mirror and the negations of <, and < is transitive.
C3_TotalOrder ==
    pc = "compared" =>
        /\ ~(result.lt /\ result.lt_ba)
        /\ (~result.lt /\ ~result.lt_ba) <=> (Key(input.a) = Key(input.b))
        /\ result.gt <=> result.lt_ba
        /\ result.le <=> ~result.lt_ba
        /\ result.ge <=> ~result.lt
        /\ (result.lt /\ result.lt_bc) => result.lt_ac

C3_Witness ==
    /\ pc = "compared"
    /\ result.lt /\ result.lt_bc /\ result.lt_ac
    /\ input.a.lotteryDate = input.b.lotteryDate
    /\ input.b.lotteryDate # input.c.lotteryDate

\* ------------------------------------------------------------------------
\* Properties of the sorting routines
\* ------------------------------------------------------------------------
Count(s, x) == Cardinality({k \in 1 .. Len(s) : s[k] = x})

IsPermutation(s, t) ==
    /\ Len(s) = Len(t)
    /\ \A k \in 1 .. Len(t) : Count(s, t[k]) = Count(t, t[k])

NonDecreasing(s) == \A k \in 0 .. Len(s) - 2 : ~Less(At(s, k + 1), At(s, k))

\* C1: each routine leaves a permutation of its input (the same whole
\* records, none changed) that is non-decreasing under operator<, and uses
\* no index outside 0..N-1; inputs of length 0 and 1 included.
C1_SortCorrect ==
    \A alg \in Algs :
        (pc = "sort" /\ result[alg].ran) =>
            /\ IsPermutation(result[alg].arr, input)
            /\ NonDecreasing(result[alg].arr)
            /\ ~result[alg].oob

C1_Witness ==
    /\ pc = "sort"
    /\ Len(input) = 4
    /\ ~NonDecreasing(input)
    /\ \E k \in 1 .. 3 : Key(input[k]) = Key(input[k + 1]) /\ input[k] # input[k + 1]
    /\ \A alg \in Algs : result[alg].ran /\ result[alg].arr # input

AllRan == pc = "sort" /\ \A alg \in Algs : result[alg].ran

DistinctKeys(s) == \A k, m \in 1 .. Len(s) : k # m => Key(s[k]) # Key(s[m])

\* C4: the four outputs carry the same key at every position, and are the
\* same sequence of records when no two input records share a key.
C4_Agreement ==
    AllRan =>
        \A x, y \in Algs :
            /\ Len(result[x].arr) = Len(result[y].arr)
            /\ \A k \in 1 .. Len(result[x].arr) :
                   Key(result[x].arr[k]) = Key(result[y].arr[k])
            /\ DistinctKeys(input) => result[x].arr = result[y].arr

C4_Witness ==
    /\ AllRan
    /\ Len(input) >= 3
    /\ ~DistinctKeys(input)
    /\ result["heap"].arr # result["bubble"].arr
    /\ result["selection"].arr # input

\* Where pass i's first comparison stands in bubbleSort's log (0-based).
PassOffset(n, i) == i * (n - 1) - ((i * (i - 1)) \div 2)

\* C10: on an input of length N >= 1 bubbleSort makes exactly N-1 passes and
\* N(N-1)/2 comparisons, pass i comparing (j, j+1) for j = 0..N-i-2 in that
\* order, whatever the input's order; a comparison changes the vector only
\* when the left element is strictly greater, and then by swapping the pair.
C10_NoEarlyExit ==
    (pc = "sort" /\ result["bubble"].ran /\ Len(input) >= 1) =>
        LET n == Len(input)
            r == result["bubble"]
        IN  /\ r.passes = n - 1
            /\ Len(r.log) = (n * (n - 1)) \div 2
            /\ \A i \in 0 .. n - 2 : \A j \in 0 .. n - i - 2 :
                   LET e == r.log[PassOffset(n, i) + j + 1]
                   IN  e.pass = i /\ e.left = j /\ e.right = j + 1
            /\ \A k \in 1 .. Len(r.log) :
                   LET e == r.log[k]
                       gt == Greater(At(e.before, e.left), At(e.before, e.right))
                   IN  /\ e.after # e.before => gt
                       /\ e.after = IF gt THEN Swap(e.before, e.left, e.right)
                                    ELSE e.before

C10_Witness ==
    /\ pc = "sort" /\ result["bubble"].ran
    /\ Len(input) = 4
    /\ NonDecreasing(input)
    /\ result["bubble"].passes = 3
    /\ Len(result["bubble"].log) = 6
    /\ \A k \in 1 .. 6 : result["bubble"].log[k].after = input


\* ------------------------------------------------------------------------
\* The loader applied to one file
\* ------------------------------------------------------------------------
Comma == <<",">>

F1 == <<"1">>
F10 == <<"1", "0">>
F50 == <<"5", "0">>

Line4(a, b, c, d) == a \o Comma \o b \o Comma \o c \o Comma \o d

LineGood1 == Line4(F1, F10, DateMay, F50)
LineGood2 == Line4(<<"2">>, <<"2", "0">>, DateMay, <<"1", "0", "0">>)
LineGood3 == Line4(<<"3">>, <<"5">>, DateApr, <<"0">>)
LineSpaced == Line4(<<" ", "7">>, <<"+", "1", "0">>, DateMay, <<"-", "5", "0">>)
LineThree == F1 \o Comma \o F10 \o Comma \o DateMay
LineFive == LineGood1 \o Comma \o <<"9">>
LineAlpha == Line4(<<"a">>, F10, DateMay, F50)
LineJunk == Line4(F1, F10, DateMay, <<"5", "a">>)
LineOpenEnd == F1 \o Comma \o F10 \o Comma \o DateMay \o Comma
LineBig == Line4(F1, <<"9", "9", "9", "9", "9", "9", "9", "9", "9", "9">>, DateMay, F50)

SampleLines ==
    {LineGood1, LineGood2, LineGood3, LineSpaced, LineThree, LineFive,
     LineAlpha, LineJunk, LineOpenEnd, LineBig, <<>>}

\* Every line of at most MaxLineLen characters over a four-letter alphabet.
ShortLines == SeqsUpTo({"7", ",", "a", "-"}, MaxLineLen)

LoadFiles ==
    {NoFile} \cup {TextFile(<<l>>) : l \in ShortLines}
             \cup {TextFile(ls) : ls \in SeqsUpTo(SampleLines, MaxLines)}

InitLoad ==
    /\ pc = "read"
    /\ input \in LoadFiles
    /\ result = None
    /\ HarnessIdle

ReadFile ==
    /\ pc = "read"
    /\ pc' = "returned"
    /\ result' = readTicketsFromFile(input)
    /\ UNCHANGED <<input, harnessVars>>

NextLoad == ReadFile

SpecLoad == InitLoad /\ [][NextLoad]_vars

\* The comma-separated fields of a line.
RECURSIVE Fields(_, _)
Fields(s, cur) ==
    IF s = <<>> THEN <<cur>>
    ELSE IF Head(s) = "," THEN <<cur>> \o Fields(Tail(s), <<>>)
    ELSE Fields(Tail(s), Append(cur, Head(s)))

\* A decimal number: an optional sign and one or more digits, nothing else.
IsNumber(f) ==
    LET body == IF f # <<>> /\ Head(f) \in {"+", "-"} THEN Tail(f) ELSE f
    IN  body # <<>> /\ \A k \in 1 .. Len(body) : IsDigit(body[k])

WellFormed(line) ==
    LET fs == Fields(line, <<>>)
    IN  Len(fs) = 4 /\ IsNumber(fs[1]) /\ IsNumber(fs[2]) /\ IsNumber(fs[4])

\* C9: readTicketsFromFile fails, returning no records, whenever the file
\* cannot be opened or some line does not hold exactly four comma-separated
\* fields with numbers in the first, second and fourth.
C9_MalformedRejected ==
    pc = "returned" =>
        ((~input.open \/ \E k \in 1 .. Len(input.lines) : ~WellFormed(input.lines[k]))
            => ~result.ok)


\* ------------------------------------------------------------------------
\* The measurement run
\* ------------------------------------------------------------------------
\* The files a run may find: missing, empty, three well-formed unsorted
\* lines, a well-formed line followed by one stoll rejects, and a
\* well-formed line followed by a line of three fields.
HarnessFiles ==
    {NoFile, TextFile(<<>>), TextFile(<<LineGood1, LineGood2, LineGood3>>),
     TextFile(<<LineGood1, LineAlpha>>), TextFile(<<LineGood2, LineThree>>)}

Init ==
    /\ pc = "load"
    /\ files \in [1 .. NumSizes -> HarnessFiles]
    /\ arrs_tickets = <<>>
    /\ std_sort_times = <<>>
    /\ std_bubble_times = <<>>
    /\ std_selection_times = <<>>
    /\ std_heap_times = <<>>
    /\ out = <<>>
    /\ written = <<>>
    /\ calls = <<>>
    /\ input = None
    /\ result = None

Next ==
    \/ LoadDataset
    \/ MeasureStdSort
    \/ MeasureBubbleSort
    \/ MeasureSelectionSort
    \/ MeasureHeapSort
    \/ WriteTable

Spec == Init /\ [][Next]_vars

\* What the loader returns for file k of the sweep.
Loaded(k) == readTicketsFromFile(files[k])

\* C5: the loaded datasets are never changed by a run (each stays what the
\* loader returned for its file), and every measure* invocation receives
\* the dataset of its index exactly as it stands there.
C5_PrivateCopies ==
    /\ \A k \in 1 .. Len(arrs_tickets) : arrs_tickets[k] = Loaded(k).tickets
    /\ \A n \in 1 .. Len(calls) : calls[n].tickets = arrs_tickets[calls[n].index]

C5_Witness ==
    /\ pc = "done"
    /\ Len(calls) = 4 * NumSizes
    /\ \E n \in 1 .. Len(calls) :
           /\ calls[n].alg = "heap"
           /\ calls[n].sorted # calls[n].tickets
           /\ arrs_tickets[calls[n].index] = calls[n].tickets

\* C6 as claimed: all invocations for one size precede every invocation
\* for the next size.
C6_SizeMajorOrder ==
    \A p, q \in 1 .. Len(calls) : p < q => calls[p].index <= calls[q].index

AlgRank(alg) ==
    CASE alg = "std" -> 1 [] alg = "bubble" -> 2 [] alg = "selection" -> 3
      [] alg = "heap" -> 4

\* C6 amended: the invocations run algorithm by algorithm, reference sort,
\* bubble, selection, heap, and each algorithm's invocations go through the
\* sizes in sweep order; a finished run has made one per algorithm and size.
C6_AlgorithmMajorOrder ==
    /\ \A p, q \in 1 .. Len(calls) : p < q =>
           \/ AlgRank(calls[p].alg) < AlgRank(calls[q].alg)
           \/ (calls[p].alg = calls[q].alg /\ calls[p].index < calls[q].index)
    /\ pc = "done" =>
           \A alg \in Algs : \A k \in 1 .. Len(files) :
               \E n \in 1 .. Len(calls) : calls[n].alg = alg /\ calls[n].index = k

C6_Witness ==
    /\ pc = "done"
    /\ Len(calls) = 4 * NumSizes
    /\ calls[NumSizes].alg = "std" /\ calls[NumSizes].index = NumSizes
    /\ calls[NumSizes + 1].alg = "bubble" /\ calls[NumSizes + 1].index = 1

\* The duration measured by the invocation of alg on dataset k.
Measured(alg, k) ==
    (CHOOSE c \in {calls[n] : n \in 1 .. Len(calls)} : c.alg = alg /\ c.index = k).ms

\* C7: the table is written once, at the end of a run whose datasets all
\* loaded; it has one row per size of the sweep, in sweep (ascending) order,
\* and row i is (size i, reference, bubble, selection, heap durations), each
\* the one measured for that algorithm on dataset i.
C7_ResultsTable ==
    /\ pc # "done" => out = <<>>
    /\ pc = "done" =>
           /\ Len(out) = Len(files)
           /\ \A i \in 1 .. Len(out) :
                  /\ out[i] = <<arr_size[i], Measured("std", i), Measured("bubble", i),
                                Measured("selection", i), Measured("heap", i)>>
                  /\ Cardinality({n \in 1 .. Len(calls) : calls[n].index = i}) = 4
                  /\ i > 1 => out[i - 1][1] < out[i][1]

C7_Witness ==
    /\ pc = "done"
    /\ Len(out) = NumSizes
    /\ out[1][3] # out[1][4]
    /\ out[1][2] # out[2][2]
    /\ Len(arrs_tickets[1]) # Len(arrs_tickets[2])

=============================================================================
